---- MODULE Spec2Model ----
(***************************************************************************)
(* Model of cattrs_api/wrappers.py: the list structure-hook factory        *)
(* (list_factory / struct_list) and the binding wrapper (parse_wrap, with  *)
(* query_wrap and body_wrap).                                              *)
(*                                                                         *)
(* Python values are tagged records.  A str is a sequence of one-character *)
(* strings, a list a sequence of values, a mapping a sequence of           *)
(* <<key, value>> pairs.  A raised exception is the record an operator     *)
(* yields in place of a value.                                             *)
(***************************************************************************)
EXTENDS Integers, Sequences, FiniteSets, TLC

\* ------------------------------------------------------------------ bounds
\* Requests handled concurrently by one wrapped handler.
NumRequests == 2
\* Pieces joined into one comma-separated string.
MaxPieces == 2
\* Spaces put on either side of a piece.
MaxPad == 1
\* Type arguments a list type may carry.
MaxArgs == 2

\* ------------------------------------------------------------------ values
Str(s) == [tag |-> "str", v |-> s]
ListV(xs) == [tag |-> "list", v |-> xs]
IntV(n) == [tag |-> "int", v |-> n]
MapV(kvs) == [tag |-> "map", v |-> kvs]
NoneV == [tag |-> "none", v |-> <<>>]
Obj(cls, kvs) == [tag |-> cls, v |-> kvs]
Exc(kind, msg, site) == [tag |-> "exc", kind |-> kind, msg |-> msg, site |-> site]
IsExc(x) == x.tag = "exc"

\* Type descriptors: an origin and the tuple typing.get_args returns for it.
Ty(origin, args) == [origin |-> origin, args |-> args]
TRequest == Ty("Request", <<>>)
TInt == Ty("int", <<>>)
TStr == Ty("str", <<>>)
TList(args) == Ty("list", args)
TFoo == Ty("Foo", <<>>)
TVals == Ty("Vals", <<>>)

\* The record types of the handlers: Foo {x: int}, Vals {values: list[int]}.
Fields(cls) ==
    IF cls = "Foo" THEN << <<"x", TInt>> >>
    ELSE IF cls = "Vals" THEN << <<"values", TList(<<TInt>>)>> >>
    ELSE <<>>

\* get_args(typ)
get_args(typ) == typ.args

\* ----------------------------------------------------- the failures raised
ListTooManySubscripts ==
    Exc("ValueError", "List cannot have more than one subscript", "list_factory")
ListNoSubscript ==
    Exc("ValueError", "List must have a subscript", "list_factory")
UnknownValueType ==
    Exc("ValueError", "Unknown value type given", "struct_list")
OnlyOneCustom ==
    Exc("ValueError", "Only one custom parameter allowed", "wr")
FailedToExtractLookup ==
    Exc("LookupError", "Failed to extract inner from request", "wr_func")
FailedToExtract ==
    Exc("ValueError", "Failed to extract inner from request", "wr_func")

\* --------------------------------------------------------- str operations
IsSpace(c) == c = " "

RECURSIVE LStrip(_)
LStrip(s) == IF s # <<>> /\ IsSpace(Head(s)) THEN LStrip(Tail(s)) ELSE s

RECURSIVE RStrip(_)
RStrip(s) ==
    IF s # <<>> /\ IsSpace(s[Len(s)]) THEN RStrip(SubSeq(s, 1, Len(s) - 1)) ELSE s

\* v.strip()
NoStrip(s) == s
Strip(s) == RStrip(LStrip(s))

RECURSIVE SplitAt(_, _, _)
SplitAt(s, sep, cur) ==
    IF s = <<>> THEN <<cur>>
    ELSE IF Head(s) = sep THEN <<cur>> \o SplitAt(Tail(s), sep, <<>>)
    ELSE SplitAt(Tail(s), sep, Append(cur, Head(s)))

\* value.split(","): "" gives [""], "a," gives ["a", ""].
SplitOnSpace(s) == SplitAt(s, " ", <<>>)
SplitComma(s) == SplitAt(s, ",", <<>>)

\* ------------------------------------------------ the converter's built-ins
DigitChars == <<"0", "1", "2", "3", "4", "5", "6", "7", "8", "9">>
IsDigit(c) == \E i \in 1..Len(DigitChars) : DigitChars[i] = c
DigitVal(c) == (CHOOSE i \in 1..Len(DigitChars) : DigitChars[i] = c) - 1

RECURSIVE Decimal(_)
Decimal(s) ==
    IF s = <<>> THEN 0 ELSE Decimal(SubSeq(s, 1, Len(s) - 1)) * 10 + DigitVal(s[Len(s)])

\* int(str): surrounding whitespace is ignored, the rest is decimal digits.
ParseInt(s) ==
    LET t == RStrip(LStrip(s)) IN
    IF t # <<>> /\ \A i \in 1..Len(t) : IsDigit(t[i])
    THEN IntV(Decimal(t))
    ELSE Exc("ValueError", "invalid literal for int()", "converter")

StructInt(v) ==
    IF v.tag = "int" THEN v
    ELSE IF v.tag = "str" THEN ParseInt(v.v)
    ELSE Exc("TypeError", "int() argument", "converter")

StructStr(v) ==
    IF v.tag = "str" THEN v
    ELSE Exc("StructureError", "not a str", "converter")

HasKey(kvs, k) == \E i \in 1..Len(kvs) : kvs[i][1] = k
Lookup(kvs, k) == kvs[CHOOSE i \in 1..Len(kvs) : kvs[i][1] = k][2]

\* The first exception of a sequence of results, or the results.
FirstExc(rs) == rs[CHOOSE i \in 1..Len(rs) : IsExc(rs[i]) /\ \A j \in 1..(i - 1) : ~IsExc(rs[j])]
HasExc(rs) == \E i \in 1..Len(rs) : IsExc(rs[i])

\* --------------------------------------------------------------- list_factory
\* len(inner) > 1
TooManyArgsLoose(inner) == Len(inner) > 2
TooManyArgs(inner) == Len(inner) > 1

\* list_factory(typ, converter): the hook (closing over cls) or the failure.
list_factory(typ) ==
    LET inner == get_args(typ) IN
    IF TooManyArgs(inner) THEN ListTooManySubscripts
    ELSE IF inner = <<>> THEN ListNoSubscript
    ELSE [tag |-> "hook", cls |-> inner[1]]

RECURSIVE Structure(_, _)

\* struct_list(value, _) of the hook list_factory returned.
struct_list(hook, value) ==
    IF value.tag = "str" THEN
        LET listed == SplitComma(value.v)
            rs == [i \in 1..Len(listed) |-> Structure(Str(Strip(listed[i])), hook.cls)]
        IN IF HasExc(rs) THEN FirstExc(rs) ELSE ListV(rs)
    ELSE IF value.tag = "list" THEN
        LET rs == [i \in 1..Len(value.v) |-> Structure(value.v[i], hook.cls)]
        IN IF HasExc(rs) THEN FirstExc(rs) ELSE ListV(rs)
    ELSE UnknownValueType

\* The converter's structuring of a record type from a mapping.
StructClass(v, cls) ==
    LET fs == Fields(cls) IN
    IF v.tag # "map" THEN Exc("StructureError", "not a mapping", "converter")
    ELSE IF \E i \in 1..Len(fs) : ~HasKey(v.v, fs[i][1])
    THEN Exc("StructureError", "missing field", "converter")
    ELSE LET rs == [i \in 1..Len(fs) |-> Structure(Lookup(v.v, fs[i][1]), fs[i][2])]
         IN IF HasExc(rs) THEN FirstExc(rs)
            ELSE Obj(cls, [i \in 1..Len(fs) |-> <<fs[i][1], rs[i]>>])

\* converter.structure(value, typ), list_factory registered for list types.
Structure(value, typ) ==
    IF typ.origin = "int" THEN StructInt(value)
    ELSE IF typ.origin = "str" THEN StructStr(value)
    ELSE IF typ.origin = "list" THEN
        LET hook == list_factory(typ) IN
        IF IsExc(hook) THEN hook ELSE struct_list(hook, value)
    ELSE StructClass(value, typ.origin)

\* ------------------------------------------------------------------- state
VARIABLES
    hook_typ,    \* the type list_factory was called with; NoneV before the call
    struct_hook, \* what list_factory returned or raised; NoneV before the call
    hookIn,      \* the pieces and the comma-joined string last given to the hook
    hookOut,     \* the hook's results for the joined string and for the list
    inner_func,  \* parse_wrap's extractor: "query" or "body"; "unset" before
    wrapState,   \* "start", "factory" (parse_wrap returned wr), "wrapped", "failed"
    func_sig,    \* the parameter annotations of the handler given to wr
    custom,      \* wr's list of <<idx, annotation>> of the non-request parameters
    wrapErr,     \* what wr raised, NoneV otherwise
    sigCalls,    \* calls of inspect.signature
    iscoroCalls, \* calls of inspect.iscoroutinefunction
    pc,          \* per request: "new", "awaitExtract", "awaitHandler", "done"
    request,     \* per request: the Request the wrapped handler was called with
    extractArg,  \* per request: the Request the pending inner_func coroutine holds
    frames,      \* wr_func's locals, per call frame: request, inner, structed
    log,         \* per request: the calls wr_func made, in order
    hargs,       \* per request: the arguments func was invoked with
    hret,        \* per request: what func returned or raised
    result,      \* per request: what wr_func returned or raised
    raised       \* the failures of this layer raised so far (history)

hookVars == <<hook_typ, struct_hook, hookIn, hookOut>>
wrapVars == <<inner_func, wrapState, func_sig, custom, wrapErr, sigCalls>>
reqVars == <<iscoroCalls, pc, request, extractArg, frames, log, hargs, hret, result>>
vars == <<hookVars, wrapVars, reqVars, raised>>

Reqs == 1..NumRequests

\* ---------------------------------------------------- the list hook, alone
ElemTypes == {TInt, TStr}

\* The type-argument tuples a list type is given, up to MaxArgs arguments.
ArgTuples == UNION {[1..n -> ElemTypes] : n \in 0..MaxArgs}

\* Pieces with no comma and no leading or trailing whitespace.
PieceSamples == {<<>>, <<"1">>, <<"x">>, <<"1", "2">>, <<"3", " ", "1">>}
PieceLists == UNION {[1..n -> PieceSamples] : n \in 0..MaxPieces}

\* Raw values of other shapes, and strings the pieces do not cover.
RawSamples ==
    { Str(<<"1", ",">>), Str(<<",", "2">>), Str(<<" ">>),
      ListV(<<Str(<<" ", "1">>), Str(<<"x", " ">>)>>), ListV(<<IntV(7)>>),
      MapV(<< <<"values", Str(<<"1", ",", "2">>)>> >>), IntV(5), NoneV }

Spaces(n) == [i \in 1..n |-> " "]

RECURSIVE JoinComma(_)
JoinComma(ps) ==
    IF ps = <<>> THEN <<>>
    ELSE IF Len(ps) = 1 THEN ps[1]
    ELSE ps[1] \o <<",">> \o JoinComma(Tail(ps))

\* The pieces joined by commas, piece i between pads[i][1] and pads[i][2] spaces.
Joined(pieces, pads) ==
    JoinComma([i \in 1..Len(pieces) |->
                  Spaces(pads[i][1]) \o pieces[i] \o Spaces(pads[i][2])])

HookInit ==
    /\ hook_typ = NoneV
    /\ struct_hook = NoneV
    /\ hookIn = NoneV
    /\ hookOut = NoneV

\* list_factory(list[args], converter)
MakeHook(args) ==
    /\ struct_hook = NoneV
    /\ hook_typ' = TList(args)
    /\ struct_hook' = list_factory(TList(args))
    /\ UNCHANGED <<hookIn, hookOut, wrapVars, reqVars, raised>>

\* The hook applied to the comma-joined string of the pieces and to their list
\* (one conversion is followed per behaviour: the hook keeps nothing between calls).
ConvertPieces ==
    /\ struct_hook.tag = "hook"
    /\ hookOut = NoneV
    /\ \E pieces \in PieceLists :
          \E pads \in [1..Len(pieces) -> (0..MaxPad) \X (0..MaxPad)] :
             /\ hookIn' = [tag |-> "pieces", pieces |-> pieces,
                           joined |-> Joined(pieces, pads)]
             /\ hookOut' = [tag |-> "pieces",
                            str |-> struct_list(struct_hook, Str(Joined(pieces, pads))),
                            list |-> struct_list(struct_hook,
                                         ListV([i \in 1..Len(pieces) |-> Str(pieces[i])]))]
    /\ UNCHANGED <<hook_typ, struct_hook, wrapVars, reqVars, raised>>

\* The hook applied to one raw value.
ConvertRaw ==
    /\ struct_hook.tag = "hook"
    /\ hookOut = NoneV
    /\ \E value \in RawSamples :
          /\ hookIn' = [tag |-> "raw", value |-> value]
          /\ hookOut' = [tag |-> "raw", out |-> struct_list(struct_hook, value)]
    /\ UNCHANGED <<hook_typ, struct_hook, wrapVars, reqVars, raised>>

\* -------------------------------------------------------------- parse_wrap
\* The handlers given to wr, by their parameters' annotations.
SigSamples ==
    { <<TRequest>>,
      <<TRequest, TFoo>>,
      <<TRequest, TVals>>,
      <<TRequest, TList(<<TInt>>)>>,
      <<TRequest, TList(<<>>)>>,
      <<TRequest, TList(<<TInt, TStr>>)>>,
      <<TRequest, TFoo, TInt>>,
      <<TRequest, TInt, TStr, TFoo>> }

\* What a request carries: its query parameters and its decoded JSON body
\* (tag "invalid": a body json.loads rejects).
RequestSamples ==
    { [query |-> MapV(<<>>), body |-> MapV(<<>>)],
      [query |-> MapV(<< <<"x", Str(<<"5">>)>> >>),
       body |-> MapV(<< <<"x", IntV(5)>> >>)],
      [query |-> MapV(<< <<"values", Str(<<"1", ",", "2", ",", "3">>)>> >>),
       body |-> MapV(<< <<"values", ListV(<<IntV(1), IntV(2), IntV(3)>>)>> >>)],
      [query |-> MapV(<< <<"values", Str(<<"1", ",", " ", "x">>)>> >>),
       body |-> [tag |-> "invalid", v |-> <<>>]],
      [query |-> MapV(<< <<"values", Str(<<" ", "3", ",", "1">>)>> >>),
       body |-> ListV(<<IntV(4), Str(<<"2">>)>>)],
      [query |-> MapV(<< <<"x", Str(<<"x">>)>> >>), body |-> ListV(<<>>)] }

MkRequest(r, s) == [tag |-> "request", id |-> r, query |-> s.query, body |-> s.body]

\* custom = [(idx, p) for idx, p in enumerate(params) if p.annotation != Request]
CustomParams(sig) ==
    SelectSeq([i \in 1..Len(sig) |-> <<i - 1, sig[i]>>], LAMBDA q : q[2] # TRequest)

\* len(custom) > 1
TooManyCustomLoose(c) == Len(c) > 2
TooManyCustom(c) == Len(c) > 1

\* elif custom
HasCustom(c) == c # <<>>

\* _, p = custom[0]; p.annotation
Annotation(c) == c[1][2]

\* inspect.iscoroutinefunction(inner_func): get_body is async def, the
\* query lambda is not.
iscoroutinefunction(f) == f = "body"

\* lambda req: req.query_params
query_params(req) == req.query

\* json.loads(await req.body())
get_body(req) ==
    IF req.body.tag = "invalid"
    THEN Exc("JSONDecodeError", "Expecting value", "json")
    ELSE req.body

\* inner_func(request)
Extract(f, req) == IF f = "query" THEN query_params(req) ELSE get_body(req)

\* not inner: an empty mapping, list or str, 0 and None are falsy.
OnlyNoneFalsy(v) == v.tag = "none"
Falsy(v) ==
    IF v.tag \in {"map", "list", "str"} THEN v.v = <<>>
    ELSE IF v.tag = "int" THEN v.v = 0
    ELSE v.tag = "none"

\* Each call of wr_func runs in a frame of its own.
SharedFrame(r) == 1
Frame(r) == r

\* func(request, structed)
HandlerArgsSwapped(req, structed) == <<structed, req>>
HandlerArgs(req, structed) == <<req, structed>>

\* func(request)
ForwardTwice(req) == <<req, req>>
ForwardArgs(req) == <<req>>

\* The user's handler: it answers with what it was given, or fails.
Response(args) == [tag |-> "response", v |-> args]
func(args, ok) ==
    IF ok THEN Response(args) ELSE Exc("RuntimeError", "handler failed", "func")

\* One more inspection of the extractor, made by the call that runs line 70.
InspectionCached(n) == IF n = 0 THEN 1 ELSE n
CountInspection(n) == n + 1

\* The failures this layer raises itself, by the place that raises them.
Layer(e) == IsExc(e) /\ e.site \in {"wr", "wr_func", "list_factory", "struct_list"}
NewRaised(e) == IF Layer(e) THEN {e} ELSE {}

NoFrame == [request |-> NoneV, inner |-> NoneV, structed |-> NoneV]

\* wr_func from the falsy check on: what it calls, and how it ends.
Bind(req, inner, annotation) ==
    IF Falsy(inner)
    THEN [events |-> <<"check">>, structed |-> NoneV,
          raise |-> FailedToExtract, args |-> <<>>]
    ELSE LET structed == Structure(inner, annotation) IN
         IF IsExc(structed)
         THEN [events |-> <<"check", "structure">>, structed |-> NoneV,
               raise |-> structed, args |-> <<>>]
         ELSE [events |-> <<"check", "structure", "handler">>, structed |-> structed,
               raise |-> NoneV, args |-> HandlerArgs(req, structed)]

WrapInit ==
    /\ inner_func = "unset"
    /\ wrapState = "start"
    /\ func_sig = <<>>
    /\ custom = <<>>
    /\ wrapErr = NoneV
    /\ sigCalls = 0

ReqInit ==
    /\ iscoroCalls = 0
    /\ pc = [r \in Reqs |-> "new"]
    /\ request = [r \in Reqs |-> NoneV]
    /\ extractArg = [r \in Reqs |-> NoneV]
    /\ frames = [f \in Reqs |-> NoFrame]
    /\ log = [r \in Reqs |-> <<>>]
    /\ hargs = [r \in Reqs |-> <<>>]
    /\ hret = [r \in Reqs |-> NoneV]
    /\ result = [r \in Reqs |-> NoneV]

Init == HookInit /\ WrapInit /\ ReqInit /\ raised = {}

\* parse_wrap(converter, inner_func): query_wrap or body_wrap.
ParseWrap(f) ==
    /\ wrapState = "start"
    /\ inner_func' = f
    /\ wrapState' = "factory"
    /\ UNCHANGED <<func_sig, custom, wrapErr, sigCalls, hookVars, reqVars, raised>>

\* wr(func)
Wr(sig) ==
    /\ wrapState = "factory"
    /\ func_sig' = sig
    /\ sigCalls' = sigCalls + 1
    /\ LET c == CustomParams(sig) IN
       /\ custom' = c
       /\ IF TooManyCustom(c)
          THEN /\ wrapState' = "failed"
               /\ wrapErr' = OnlyOneCustom
          ELSE /\ wrapState' = "wrapped"
               /\ wrapErr' = NoneV
    /\ raised' = raised \cup NewRaised(wrapErr')
    /\ UNCHANGED <<inner_func, hookVars, reqVars>>

\* wr_func ends in a failure, or calls func and awaits it.
Finish(r, b) ==
    IF IsExc(b.raise)
    THEN /\ result' = [result EXCEPT ![r] = b.raise]
         /\ pc' = [pc EXCEPT ![r] = "done"]
         /\ raised' = raised \cup NewRaised(b.raise)
         /\ UNCHANGED <<hargs, hret>>
    ELSE /\ hargs' = [hargs EXCEPT ![r] = b.args]
         /\ pc' = [pc EXCEPT ![r] = "awaitHandler"]
         /\ UNCHANGED <<result, hret, raised>>

\* wr_func(request) from its call to its first suspension or its end.
Call(r, s) ==
    /\ wrapState = "wrapped"
    /\ pc[r] = "new"
    /\ LET req == MkRequest(r, s) IN
       /\ request' = [request EXCEPT ![r] = req]
       /\ IF HasCustom(custom)
          THEN /\ iscoroCalls' = CountInspection(iscoroCalls)
               /\ IF iscoroutinefunction(inner_func)
                  THEN /\ extractArg' = [extractArg EXCEPT ![r] = req]
                       /\ frames' = [frames EXCEPT ![Frame(r)] =
                                        [NoFrame EXCEPT !.request = req]]
                       /\ log' = [log EXCEPT ![r] = <<"iscoro", "extract">>]
                       /\ pc' = [pc EXCEPT ![r] = "awaitExtract"]
                       /\ UNCHANGED <<hargs, hret, result, raised>>
                  ELSE LET inner == Extract(inner_func, req)
                           b == Bind(req, inner, Annotation(custom))
                       IN /\ frames' = [frames EXCEPT ![Frame(r)] =
                                           [request |-> req, inner |-> inner,
                                            structed |-> b.structed]]
                          /\ log' = [log EXCEPT ![r] = <<"iscoro", "extract">> \o b.events]
                          /\ Finish(r, b)
                          /\ UNCHANGED extractArg
          ELSE /\ frames' = [frames EXCEPT ![Frame(r)] = [NoFrame EXCEPT !.request = req]]
               /\ log' = [log EXCEPT ![r] = <<"handler">>]
               /\ hargs' = [hargs EXCEPT ![r] = ForwardArgs(req)]
               /\ pc' = [pc EXCEPT ![r] = "awaitHandler"]
               /\ UNCHANGED <<iscoroCalls, extractArg, hret, result, raised>>
    /\ UNCHANGED <<hookVars, wrapVars>>

\* The awaited inner_func(request) completes and wr_func runs on.
ResumeExtract(r) ==
    /\ pc[r] = "awaitExtract"
    /\ LET inner == Extract(inner_func, extractArg[r])
           fr == frames[Frame(r)]
       IN IF IsExc(inner)
          THEN /\ result' = [result EXCEPT ![r] = inner]
               /\ pc' = [pc EXCEPT ![r] = "done"]
               /\ UNCHANGED <<frames, log, hargs, hret, raised>>
          ELSE LET b == Bind(fr.request, inner, Annotation(custom))
               IN /\ frames' = [frames EXCEPT ![Frame(r)] =
                                   [request |-> fr.request, inner |-> inner,
                                    structed |-> b.structed]]
                  /\ log' = [log EXCEPT ![r] = log[r] \o b.events]
                  /\ Finish(r, b)
    /\ UNCHANGED <<hookVars, wrapVars, iscoroCalls, request, extractArg>>

\* The awaited func(...) completes; wr_func returns or raises what it did.
HandlerReturn(r, ok) ==
    /\ pc[r] = "awaitHandler"
    /\ hret' = [hret EXCEPT ![r] = func(hargs[r], ok)]
    /\ result' = [result EXCEPT ![r] = hret'[r]]
    /\ pc' = [pc EXCEPT ![r] = "done"]
    /\ UNCHANGED <<hookVars, wrapVars, iscoroCalls, request, extractArg, frames, log,
                   hargs, raised>>

\* The application goes on to wrap its next handler.
Rewrap ==
    /\ \/ wrapState = "failed"
       \/ wrapState = "wrapped" /\ \A r \in Reqs : pc[r] \in {"new", "done"}
    /\ inner_func' = "unset"
    /\ wrapState' = "start"
    /\ func_sig' = <<>>
    /\ custom' = <<>>
    /\ wrapErr' = NoneV
    /\ sigCalls' = 0
    /\ iscoroCalls' = 0
    /\ pc' = [r \in Reqs |-> "new"]
    /\ request' = [r \in Reqs |-> NoneV]
    /\ extractArg' = [r \in Reqs |-> NoneV]
    /\ frames' = [f \in Reqs |-> NoFrame]
    /\ log' = [r \in Reqs |-> <<>>]
    /\ hargs' = [r \in Reqs |-> <<>>]
    /\ hret' = [r \in Reqs |-> NoneV]
    /\ result' = [r \in Reqs |-> NoneV]
    /\ UNCHANGED <<hookVars, raised>>

\* ------------------------------------------------------- specifications
\* One wrapped handler serving NumRequests requests concurrently.
Next ==
    \/ \E f \in {"query", "body"} : ParseWrap(f)
    \/ \E sig \in SigSamples : Wr(sig)
    \/ \E r \in Reqs : \E s \in RequestSamples : Call(r, s)
    \/ \E r \in Reqs : ResumeExtract(r)
    \/ \E r \in Reqs : \E ok \in BOOLEAN : HandlerReturn(r, ok)

Spec == Init /\ [][Next]_vars

\* Handlers wrapped one after the other, each serving one request.
NextErr ==
    \/ \E f \in {"query", "body"} : ParseWrap(f)
    \/ \E sig \in SigSamples : Wr(sig)
    \/ \E s \in RequestSamples : Call(1, s)
    \/ ResumeExtract(1)
    \/ \E ok \in BOOLEAN : HandlerReturn(1, ok)
    \/ Rewrap

SpecErr == Init /\ [][NextErr]_vars

\* The list hook alone: built once, then applied to raw values.
NextHook ==
    \/ \E args \in ArgTuples : MakeHook(args)
    \/ ConvertPieces
    \/ ConvertRaw

SpecHook == Init /\ [][NextHook]_vars

\* ----------------------------------------------------------------- claims
\* The values Python takes for false.
EmptyValues == {MapV(<<>>), ListV(<<>>), Str(<<>>), IntV(0), NoneV}

\* The number of parameters of the handler not annotated with Request.
NonRequestParams == Cardinality({i \in DOMAIN func_sig : func_sig[i] # TRequest})

\* The calls wr_func makes for a handler with one custom parameter, in order.
BindingOrder == <<"iscoro", "extract", "check", "structure", "handler">>
IsPrefix(s, t) == Len(s) <= Len(t) /\ s = SubSeq(t, 1, Len(s))

\* What the extractor gives for the request r was called with.
RawOf(r) == Extract(inner_func, request[r])

\* C1: for a handler with exactly one custom parameter, once the extractor has
\* returned a falsy value for a request, the wrapped handler has failed with
\* "Failed to extract inner from request", having called neither
\* converter.structure nor the original handler.
C1_FalsyExtractFails ==
    \A r \in Reqs :
        (/\ wrapState = "wrapped"
         /\ NonRequestParams = 1
         /\ Len(log[r]) >= 3
         /\ RawOf(r) \in EmptyValues)
        => /\ pc[r] = "done"
           /\ result[r] = Exc("ValueError", "Failed to extract inner from request",
                              "wr_func")
           /\ log[r] = <<"iscoro", "extract", "check">>
           /\ hargs[r] = <<>>
           /\ hret[r] = NoneV

C1_Witness ==
    \E r \in Reqs :
        /\ NonRequestParams = 1
        /\ pc[r] = "done"
        /\ RawOf(r) \in EmptyValues
        /\ result[r].tag = "exc"

C3_TooManyCustomFails ==
    (wrapState \in {"wrapped", "failed"} /\ NonRequestParams >= 2)
    => /\ wrapState = "failed"
       /\ wrapErr = Exc("ValueError", "Only one custom parameter allowed", "wr")
       /\ iscoroCalls = 0
       /\ \A r \in Reqs : pc[r] = "new" /\ log[r] = <<>> /\ hargs[r] = <<>>

C3_Witness == wrapState = "failed" /\ NonRequestParams = 2

\* C4: a handler with no non-request parameter, once wrapped, is forwarded
\* exactly the request, the wrapped handler ends with exactly what the handler
\* returned or raised, and neither the extractor nor the converter is called.
C4_ZeroCustomForwards ==
    (wrapState \in {"wrapped", "failed"} /\ NonRequestParams = 0)
    => /\ wrapState = "wrapped"
       /\ iscoroCalls = 0
       /\ \A r \in Reqs :
             pc[r] # "new"
             => /\ log[r] = <<"handler">>
                /\ hargs[r] = <<request[r]>>
                /\ extractArg[r] = NoneV
                /\ pc[r] = "awaitHandler" => result[r] = NoneV
                /\ pc[r] = "done"
                   => /\ result[r] = hret[r]
                      /\ hret[r] \in {func(<<request[r]>>, ok) : ok \in BOOLEAN}

C4_Witness ==
    \E r1, r2 \in Reqs :
        /\ wrapState = "wrapped" /\ NonRequestParams = 0
        /\ pc[r1] = "done" /\ result[r1].tag = "response"
        /\ pc[r2] = "done" /\ result[r2].tag = "exc"

\* The query string values=1,2,3, as the query extractor returns it.
ValuesQuery == MapV(<< <<"values", Str(<<"1", ",", "2", ",", "3">>)>> >>)
OneTwoThree == ListV(<<IntV(1), IntV(2), IntV(3)>>)

\* A request r carrying values=1,2,3 has got through the query extractor.
ValuesRequestBound(r) ==
    /\ wrapState = "wrapped"
    /\ inner_func = "query"
    /\ pc[r] # "new"
    /\ request[r].query = ValuesQuery

\* C5 as stated: a handler whose custom parameter is list[int], wrapped with
\* the query extractor and called with values=1,2,3, has its inner handler
\* invoked with [1,2,3].
C5_Original ==
    \A r \in Reqs :
        (ValuesRequestBound(r) /\ func_sig = <<TRequest, TList(<<TInt>>)>>)
        => hargs[r] = <<request[r], OneTwoThree>>

\* C5 as amended: the inner handler gets [1,2,3] when the list is the field
\* "values" of a record parameter; a parameter declared list[int] itself makes
\* the hook receive the whole query mapping, which is neither str nor list: the
\* wrapped handler fails with "Unknown value type given", the handler not called.
C5_ValuesEndToEnd ==
    \A r \in Reqs :
        /\ (ValuesRequestBound(r) /\ func_sig = <<TRequest, TVals>>)
           => /\ hargs[r] = <<request[r], Obj("Vals", << <<"values", OneTwoThree>> >>)>>
              /\ pc[r] = "done" => result[r] = hret[r]
        /\ (ValuesRequestBound(r) /\ func_sig = <<TRequest, TList(<<TInt>>)>>)
           => /\ pc[r] = "done"
              /\ result[r] = Exc("ValueError", "Unknown value type given", "struct_list")
              /\ hargs[r] = <<>>

C5_Witness ==
    \E r \in Reqs :
        /\ ValuesRequestBound(r)
        /\ func_sig = <<TRequest, TVals>>
        /\ pc[r] = "done"
        /\ result[r] = Response(<<request[r], Obj("Vals", << <<"values", OneTwoThree>> >>)>>)

\* The hook has converted the joined string and the list of the same pieces.
PiecesConverted == hookOut.tag = "pieces"

\* C6 as stated: for every list of pieces the hook gives the same result for the
\* comma-joined (and padded) string as for the list of the pieces.
C6_Original == PiecesConverted => hookOut.str = hookOut.list

\* C6 as amended: the same for every non-empty list of pieces; the result is
\* then the pieces structured one by one into E, in order, as many as there are
\* comma-separated segments, or the failure of the first piece that fails.
C6_JoinedEqualsList ==
    (PiecesConverted /\ hookIn.pieces # <<>>)
    => LET E == hook_typ.args[1]
           each == [i \in 1..Len(hookIn.pieces) |-> Structure(Str(hookIn.pieces[i]), E)]
       IN /\ hookOut.str = hookOut.list
          /\ Len(SplitComma(hookIn.joined)) = Len(hookIn.pieces)
          /\ IF \E i \in DOMAIN each : IsExc(each[i])
             THEN hookOut.str = each[CHOOSE i \in DOMAIN each :
                                        IsExc(each[i]) /\ \A j \in 1..(i - 1) : ~IsExc(each[j])]
             ELSE hookOut.str = ListV(each)

C6_Witness ==
    /\ PiecesConverted
    /\ hook_typ = TList(<<TStr>>)
    /\ Len(hookIn.pieces) = 2
    /\ Len(hookIn.joined) > Len(JoinComma(hookIn.pieces))
    /\ hookOut.str = ListV(<<Str(<<"x">>), Str(<<"3", " ", "1">>)>>)

\* C7: list_factory raises "List must have a subscript" for a type with no
\* type argument and "List cannot have more than one subscript" for two or
\* more, before any hook exists or any value is converted; it returns a hook
\* if and only if the type carries exactly one argument.
C7_SubscriptCheck ==
    hook_typ # NoneV
    => LET n == Len(hook_typ.args) IN
       /\ n = 0 => struct_hook = Exc("ValueError", "List must have a subscript",
                                     "list_factory")
       /\ n >= 2 => struct_hook = Exc("ValueError",
                                      "List cannot have more than one subscript",
                                      "list_factory")
       /\ n = 1 <=> struct_hook.tag = "hook"
       /\ n = 1 => struct_hook.cls = hook_typ.args[1]
       /\ n # 1 => (hookIn = NoneV /\ hookOut = NoneV)

C7_Witness ==
    /\ hook_typ # NoneV
    /\ Len(hook_typ.args) = 2
    /\ struct_hook.tag = "exc"

\* The three failure kinds of the layer, by the place that raises.
Category(e) ==
    IF e.site \in {"wr", "list_factory"} THEN "configuration"
    ELSE IF e.site = "wr_func" THEN "binding"
    ELSE "structuring"

\* C8 as stated: failures of different categories carry different error kinds.
C8_Original ==
    \A e1, e2 \in raised : Category(e1) # Category(e2) => e1.kind # e2.kind

\* C8 as amended: every failure this layer raises carries the one kind
\* ValueError; failures of different categories differ in their message only.
C8_SameKindDistinctMessages ==
    /\ \A e \in raised : e.kind = "ValueError"
    /\ \A e1, e2 \in raised : Category(e1) # Category(e2) => e1.msg # e2.msg

C8_Witness ==
    /\ {Category(e) : e \in raised} = {"configuration", "binding", "structuring"}
    /\ {e.site : e \in raised} = {"wr", "list_factory", "wr_func", "struct_list"}
    /\ Cardinality(raised) = 5

C10_Original == iscoroCalls <= 1 /\ sigCalls <= 1

\* The requests the wrapped handler has been called with.
Started == {r \in Reqs : pc[r] # "new"}

\* C10 as amended: the signature is inspected once, at wrap time, and never per
\* request; the extractor's nature is inspected once per call of a wrapped
\* handler that has a custom parameter, never for one without.
C10_InspectionCounts ==
    /\ sigCalls = IF wrapState \in {"wrapped", "failed"} THEN 1 ELSE 0
    /\ iscoroCalls = IF wrapState = "wrapped" /\ NonRequestParams = 1
                     THEN Cardinality(Started)
                     ELSE 0

C10_Witness ==
    /\ NonRequestParams = 1
    /\ Cardinality(Started) >= 2
    /\ iscoroCalls = Cardinality(Started)
    /\ sigCalls = 1

====
